---- MODULE Spec2Model ----
(***************************************************************************)
(* Model of main.go: the 5.1/7.1 -> 2.1 audio enhancement pipeline.        *)
(*                                                                         *)
(* A Go string is modelled as a sequence of pieces.  Data that the code    *)
(* inspects (the inspection tool's output, the track fields, the input     *)
(* path) is a sequence of one-character strings; a literal that the code   *)
(* only concatenates or passes on ("-map", "_track", ...) is one piece.    *)
(* Concatenation is \o.                                                    *)
(***************************************************************************)
EXTENDS Integers, Sequences, FiniteSets, TLC

(***************************************************************************)
(* Bounds and input domains                                                *)
(***************************************************************************)
\* Largest number of lines the inspection tool emits in one run.
MaxLines == 3

\* The largest token of a bufio.Scanner, in bytes, line end included.  Go's
\* bufio.MaxScanTokenSize is 64 * 1024; it is scaled down here so that a line longer
\* than the limit is a short sequence.  Every line of ProbeLines fits.
MaxScanTokenSize == 24

\* Largest number of diagnostic lines one transcode engine writes.
MaxDiag == 3

\* The number of lines the stderr pipe holds before a write to it blocks (the pipe
\* buffer of the operating system, scaled down to lines).
PipeCapacity == 1

\* Lines the inspection tool may emit (compact, pipe-delimited, no header):
\*   "1|5.1|e"            3 fields
\*   "2|7.1|j|T"          4 fields
\*   "3|7.1(wide)|g|U|x"  5 fields
\*   "4||"                3 fields, empty layout and language
\*   "5|5.1"              2 fields (no tags)
L3 == <<"1", "|", "5", ".", "1", "|", "e">>
L4 == <<"2", "|", "7", ".", "1", "|", "j", "|", "T">>
L5 == <<"3", "|", "7", ".", "1", "(", "w", "i", "d", "e", ")", "|", "g", "|", "U", "|", "x">>
L3e == <<"4", "|", "|">>
L2 == <<"5", "|", "5", ".", "1">>
ProbeLines == {L3, L4, L5, L3e, L2}

\* The lines of the files that are run twice.
RerunLines == {L3, L4, L2}

\* Further lines for the parser alone: an empty line, a line of separators, and a
\* 4-field line "6|5.1|e|TTT..." whose title makes it longer than a scanner token.
L0 == <<>>
L6 == <<"|", "|", "|", "|", "|">>
LLong == <<"6", "|", "5", ".", "1", "|", "e", "|">> \o [k \in 1..(MaxScanTokenSize + 2) |-> "T"]
ParserLines == ProbeLines \cup {L0, L6, LLong}

\* Diagnostic lines of the transcode engine: a short one, and one that has grown
\* longer than a scanner token (the engine ends its progress reports with a carriage
\* return, not a newline).
DiagShort == <<"w">>
DiagLong == [k \in 1..(MaxScanTokenSize + 1) |-> "p"]
DiagLines == {DiagShort, DiagLong}

\* Line ends the inspection tool may write.
LineEnds == {<<"\n">>, <<"\r", "\n">>}

\* The stream indices whose side-car may be left over from an earlier run.
LeftoverIndices == {<<"1">>, <<"2">>}

\* Input paths given on the command line.
InputFiles == {<<"m", ".", "m", "k", "v">>, <<"m", "k", "v">>}

(***************************************************************************)
(* String helpers of the Go library, as the code uses them                 *)
(***************************************************************************)
\* strings.HasPrefix
HasPrefix(s, p) == Len(s) >= Len(p) /\ SubSeq(s, 1, Len(p)) = p

\* strings.HasSuffix / strings.TrimSuffix
HasSuffix(s, p) == Len(s) >= Len(p) /\ SubSeq(s, Len(s) - Len(p) + 1, Len(s)) = p
TrimSuffix(s, p) == IF HasSuffix(s, p) THEN SubSeq(s, 1, Len(s) - Len(p)) ELSE s

\* Position of the first occurrence of the one-character separator c, 0 if none.
IndexOf(s, c) ==
  IF \E i \in 1..Len(s) : s[i] = c
  THEN CHOOSE i \in 1..Len(s) : s[i] = c /\ \A j \in 1..(i - 1) : s[j] # c
  ELSE 0

\* strings.Split(s, sep) for a one-character separator: n separators give n+1 parts.
RECURSIVE Split(_, _)
Split(s, sep) ==
  LET i == IndexOf(s, sep)
  IN  IF i = 0 THEN <<s>>
      ELSE <<SubSeq(s, 1, i - 1)>> \o Split(SubSeq(s, i + 1, Len(s)), sep)

\* bufio.ScanLines: drop one trailing carriage return of a line.
DropCR(s) == IF Len(s) > 0 /\ s[Len(s)] = "\r" THEN SubSeq(s, 1, Len(s) - 1) ELSE s

\* bufio.Scanner.Scan fails with ErrTooLong: the buffer is full, MaxScanTokenSize
\* bytes, and holds no complete line.  at is the position of the first newline of
\* data, 0 if it has none.
TooLong(data, at) ==
  \/ at > MaxScanTokenSize
  \/ at = 0 /\ Len(data) >= MaxScanTokenSize

\* bufio.Scanner with the default split function, as the loop of main.go:74 sees it:
\* the lines of data, each without its line end; a final line without newline is
\* still returned, an empty rest is not.  At a line that is too long Scan returns
\* false as it does at the end of the input, and the loop ends there: the code never
\* looks at scanner.Err().
RECURSIVE ScanLines(_)
ScanLines(data) ==
  LET i == IndexOf(data, "\n")
  IN  IF data = <<>> THEN <<>>
      ELSE IF TooLong(data, i) THEN <<>>
      ELSE IF i = 0 THEN <<DropCR(data)>>
      ELSE <<DropCR(SubSeq(data, 1, i - 1))>> \o ScanLines(SubSeq(data, i + 1, Len(data)))

\* One decimal digit.
Digit(d) == <<"0", "1", "2", "3", "4", "5", "6", "7", "8", "9">>[d + 1]

\* fmt.Sprintf("%d", n) for n >= 0.
RECURSIVE Itoa(_)
Itoa(n) == IF n < 10 THEN <<Digit(n)>> ELSE Itoa(n \div 10) \o <<Digit(n % 10)>>

(***************************************************************************)
(* extractTrackInfo: parsing                                               *)
(***************************************************************************)
\* The least number of fields of a line that yields a track.
MinFields == 3

\* main.go:76
HasEnoughFields(parts) == Len(parts) >= MinFields

\* main.go:77-85
MakeTrack(parts) ==
  [Index |-> parts[1], Layout |-> parts[2], Language |-> parts[3],
   Title |-> IF Len(parts) > 3 THEN parts[4] ELSE <<>>]

\* main.go:74-88 over the scanned lines
RECURSIVE ParseLines(_)
ParseLines(lines) ==
  IF lines = <<>> THEN <<>>
  ELSE LET parts == Split(Head(lines), "|")
       IN  (IF HasEnoughFields(parts) THEN <<MakeTrack(parts)>> ELSE <<>>)
           \o ParseLines(Tail(lines))

\* main.go:72-89
ParseTracks(output) == ParseLines(ScanLines(output))

(***************************************************************************)
(* File names                                                              *)
(***************************************************************************)
MkvSuffix == <<".", "m", "k", "v">>

\* main.go:29
OutputFile(inputFile) == TrimSuffix(inputFile, MkvSuffix) \o <<"_enhanced.mkv">>

\* Mutant of EnhancedFile: the side-car name leaves the track index out.
EnhancedFile_shared(inputFile, index) ==
  TrimSuffix(inputFile, MkvSuffix) \o <<"_track">> \o <<"_enhanced.opus">>

\* main.go:103, 149, 180
EnhancedFile(inputFile, index) ==
  TrimSuffix(inputFile, MkvSuffix) \o <<"_track">> \o index \o <<"_enhanced.opus">>

(***************************************************************************)
(* The inspection tool's outputs                                           *)
(***************************************************************************)
\* Sequences of at most n distinct lines of the set lines (a stream is listed once).
RECURSIVE LineSeqs(_, _)
LineSeqs(lines, n) ==
  IF n = 0 THEN {<<>>}
  ELSE LET shorter == LineSeqs(lines, n - 1)
           longest == {x \in shorter : Len(x) = n - 1}
           Fresh(ls) == {l \in lines : \A i \in 1..Len(ls) : ls[i] # l}
       IN  shorter \cup UNION {{Append(ls, l) : l \in Fresh(ls)} : ls \in longest}

\* All sequences of at most n lines of the set lines.
RECURSIVE AllSeqs(_, _)
AllSeqs(lines, n) ==
  IF n = 0 THEN {<<>>}
  ELSE LET shorter == AllSeqs(lines, n - 1)
       IN  shorter \cup {Append(ls, l) : ls \in {x \in shorter : Len(x) = n - 1}, l \in lines}

\* The bytes of an output: every line followed by the line end eol, except that the
\* last line's end is left out when lastEnded is FALSE.
RECURSIVE JoinLines(_, _, _)
JoinLines(ls, eol, lastEnded) ==
  IF ls = <<>> THEN <<>>
  ELSE IF Len(ls) = 1 THEN (IF lastEnded THEN Head(ls) \o eol ELSE Head(ls))
  ELSE Head(ls) \o eol \o JoinLines(Tail(ls), eol, lastEnded)

\* What the inspection tool writes for a file: newline-ended lines, one per stream.
OutputsOf(lines) ==
  {[lines |-> ls, bytes |-> JoinLines(ls, <<"\n">>, TRUE)] : ls \in LineSeqs(lines, MaxLines)}

ProbeOutputs == OutputsOf(ProbeLines)

\* The same for the files that are run twice.
RerunOutputs == OutputsOf(RerunLines)

\* Outputs for the parser alone: any lines, either line end, last line ended or not.
ParserOutputs ==
  {[lines |-> ls, bytes |-> JoinLines(ls, eol, e)] :
     ls \in AllSeqs(ParserLines, MaxLines), eol \in LineEnds, e \in BOOLEAN}

(***************************************************************************)
(* State                                                                   *)
(***************************************************************************)
VARIABLES
  pc,          \* position of main: "args", "extract", "fanout", "merge", "cleanup", "exit"
  hasArg,      \* len(os.Args) >= 2
  inputFile,   \* os.Args[1]
  inputExists, \* whether the input path exists
  rerun,       \* whether this is a second run of the program on the same input
  prev,        \* what the first run did, once a second run has begun
  touched,     \* the side-car paths the workers looked for or gave the engine: [pos, op, path]
  removed,     \* the paths removeTemporaryFiles called os.Remove on, in order
  diag,        \* the diagnostic stream of each worker's engine
  fs,          \* the files beside the input: path -> content, for the paths that exist
  fs0,         \* fs when the run started
  fsAtMux,     \* fs when the mux engine was invoked
  emitted,     \* the lines the inspection tool wrote, once it has run
  output,      \* the inspection tool's combined output, as main received it
  trackInfos,  \* the catalog
  launched,    \* number of iterations of the launch loop done
  wg,          \* the WaitGroup counter
  wpc,         \* position of each worker: "idle", "stat", "start", "wait", "done"
  wres,        \* how each worker ended: "none", "skipped", "startfail", "exitfail", "ok"
  ffmpegCalls, \* the transcode engine processes started: [pos, args]
  muxArgs,     \* the argument list of the mux invocation
  muxCalls,    \* number of mux invocations
  muxOK,       \* whether the mux invocation has returned success
  rmIdx,       \* number of side-cars removeTemporaryFiles has deleted
  rmFailed,    \* catalog position whose deletion failed, 0 if none
  exitCode,    \* process exit status, -1 while running
  msg          \* the last line main printed: "none", "usage", "notFoundErr", "ffprobeErr", "mergeErr", "generated"

vars == <<pc, hasArg, inputFile, inputExists, rerun, prev, touched, removed, diag, fs, fs0, fsAtMux, emitted, output, trackInfos, launched, wg,
          wpc, wres, ffmpegCalls, muxArgs, muxCalls, muxOK, rmIdx, rmFailed, exitCode, msg>>

N == Len(trackInfos)

\* The file map with path p (over)written with content c.
Put(f, p, c) == [q \in DOMAIN f \cup {p} |-> IF q = p THEN c ELSE f[q]]

\* Mutant of Del: the removal leaves the file in place.
Del_keep(f, p) == f

\* The file map without path p.
Del(f, p) == [q \in DOMAIN f \ {p} |-> f[q]]

\* os.Stat(path) returned no error.
Exists(p) == p \in DOMAIN fs

\* The record of a first run, before there is one.
NoPrev ==
  [extracted |-> FALSE, lines |-> <<>>, bytes |-> <<>>, ok |-> {}, called |-> {},
   muxArgs |-> <<>>, msg |-> "none"]

\* The diagnostic stream of a worker whose engine has not been started.  out: the
\* lines the engine has written; pipe: those unread in the pipe; held: the line the
\* forwarding goroutine has scanned and not yet printed; log: the lines printed;
\* late: how many of them were printed after main had passed the barrier; lost: the
\* lines discarded unread; blocked: the line the engine is blocked writing; rd: the
\* read end of the pipe, "none", "open" or "closed"; fwd: the forwarding goroutine,
\* "none", "scanning" or "ended".
NoDiag ==
  [out |-> <<>>, pipe |-> <<>>, held |-> <<>>, log |-> <<>>, late |-> 0, lost |-> <<>>,
   blocked |-> <<>>, rd |-> "none", fwd |-> "none"]

Init ==
  /\ pc = "args"
  /\ rerun = FALSE
  /\ prev = NoPrev
  /\ touched = {}
  /\ removed = <<>>
  /\ diag = <<>>
  /\ hasArg \in BOOLEAN
  /\ inputFile \in InputFiles
  /\ inputExists \in BOOLEAN
  /\ \E left \in SUBSET LeftoverIndices :
       fs = [p \in {EnhancedFile(inputFile, ix) : ix \in left} |-> "old"]
  /\ fs0 = fs
  /\ fsAtMux = <<>>
  /\ emitted = <<>>
  /\ output = <<>>
  /\ trackInfos = <<>>
  /\ launched = 0
  /\ wg = 0
  /\ wpc = <<>>
  /\ wres = <<>>
  /\ ffmpegCalls = {}
  /\ muxArgs = <<>>
  /\ muxCalls = 0
  /\ muxOK = FALSE
  /\ rmIdx = 0
  /\ rmFailed = 0
  /\ exitCode = -1
  /\ msg = "none"

\* os.Exit(code) after printing m.
Exit(code, m) == pc' = "exit" /\ exitCode' = code /\ msg' = m

(***************************************************************************)
(* main, lines 21-36                                                       *)
(***************************************************************************)
\* main.go:23-29
CheckArgs ==
  /\ pc = "args"
  /\ IF hasArg THEN pc' = "extract" /\ UNCHANGED <<exitCode, msg>>
               ELSE Exit(1, "usage")
  /\ UNCHANGED <<hasArg, inputFile, inputExists, rerun, prev, touched, removed, diag, fs0, fsAtMux, fs, emitted, output, trackInfos, launched, wg,
                 wpc, wres, ffmpegCalls, muxArgs, muxCalls, muxOK, rmIdx, rmFailed>>

\* Mutant of StatOK: the missing input path is not noticed.
StatOK_unchecked == TRUE

\* main.go:58: os.Stat does not report the input path as missing.
StatOK == inputExists

\* main.go:32-36 with extractTrackInfo failing: the path does not exist (58-60), or
\* the inspection tool cannot be launched or exits non-zero (67-70).
ExtractFails ==
  /\ pc = "extract"
  /\ Exit(1, IF StatOK THEN "ffprobeErr" ELSE "notFoundErr")
  /\ UNCHANGED <<hasArg, inputFile, inputExists, rerun, prev, touched, removed, diag, fs0, fsAtMux, fs, emitted, output, trackInfos, launched, wg,
                 wpc, wres, ffmpegCalls, muxArgs, muxCalls, muxOK, rmIdx, rmFailed>>

\* main.go:32 with extractTrackInfo returning the catalog (57-89), the inspection
\* tool having written one of outs.
ExtractFrom(outs) ==
  /\ pc = "extract"
  /\ StatOK
  /\ \E out \in outs :
       /\ emitted' = out.lines
       /\ output' = out.bytes
       /\ trackInfos' = ParseTracks(out.bytes)
       /\ wpc' = [i \in 1..Len(ParseTracks(out.bytes)) |-> "idle"]
       /\ wres' = [i \in 1..Len(ParseTracks(out.bytes)) |-> "none"]
       /\ diag' = [i \in 1..Len(ParseTracks(out.bytes)) |-> NoDiag]
  /\ pc' = "fanout"
  /\ UNCHANGED <<hasArg, inputFile, inputExists, rerun, prev, touched, removed, fs0, fsAtMux, fs, launched, wg,
                 ffmpegCalls, muxArgs, muxCalls, muxOK, rmIdx, rmFailed, exitCode, msg>>

ExtractOK == ExtractFrom(ProbeOutputs)

(***************************************************************************)
(* main, lines 38-43: fan-out and join                                     *)
(***************************************************************************)
\* main.go:39-42, one iteration: wg.Add(1); go processTrack(inputFile, track, &wg)
Launch ==
  /\ pc = "fanout"
  /\ launched < N
  /\ wg' = wg + 1
  /\ launched' = launched + 1
  /\ wpc' = [wpc EXCEPT ![launched + 1] = "stat"]
  /\ UNCHANGED <<pc, hasArg, inputFile, inputExists, rerun, prev, touched, removed, diag, fs0, fsAtMux, fs, emitted, output, trackInfos,
                 wres, ffmpegCalls, muxArgs, muxCalls, muxOK, rmIdx, rmFailed, exitCode, msg>>

\* Mutant of WaitReturns: the barrier lets main go on while one worker still runs.
WaitReturns_early(counter) == counter <= 1

\* sync.WaitGroup.Wait returns when the counter is zero.
WaitReturns(counter) == counter = 0

\* main.go:43, after the loop has ended
WgWait ==
  /\ pc = "fanout"
  /\ launched = N
  /\ WaitReturns(wg)
  /\ pc' = "merge"
  /\ UNCHANGED <<hasArg, inputFile, inputExists, rerun, prev, touched, removed, diag, fs0, fsAtMux, fs, emitted, output, trackInfos, launched, wg,
                 wpc, wres, ffmpegCalls, muxArgs, muxCalls, muxOK, rmIdx, rmFailed, exitCode, msg>>

(***************************************************************************)
(* processTrack                                                            *)
(***************************************************************************)
Af71 == <<"volume=1.5, pan=stereo|FL=FL+0.707*FC+0.5*BL+0.3*SL+0.5*LFE|FR=FR+0.707*FC+0.5*BR+0.3*SR+0.5*LFE">>
AfDefault == <<"volume=1.5, pan=stereo|FL=FL+0.707*FC+0.707*BL+0.5*LFE|FR=FR+0.707*FC+0.707*BR+0.5*LFE">>

\* Mutant of AudioFilter: only the layout "7.1" itself selects the 7.1 formula.
AudioFilter_exact(layout) == IF layout = <<"7", ".", "1">> THEN Af71 ELSE AfDefault

\* main.go:97-102
AudioFilter(layout) == IF HasPrefix(layout, <<"7", ".", "1">>) THEN Af71 ELSE AfDefault

\* main.go:111-122
TranscodeArgs(file, track) ==
  << <<"-i">>, file,
     <<"-map">>, <<"0:">> \o track.Index,
     <<"-af">>, AudioFilter(track.Layout),
     <<"-acodec">>, <<"libopus">>, <<"-b:a">>, <<"320k">>,
     <<"-vbr">>, <<"on">>,
     <<"-compression_level">>, <<"9">>,
     <<"-frame_duration">>, <<"20">>,
     <<"-application">>, <<"audio">>,
     <<"-metadata:s:a">>, <<"language=">> \o track.Language,
     <<"-metadata:s:a">>, <<"title=2.1 Enhanced">>,
     <<"-y">>, EnhancedFile(file, track.Index) >>

\* Mutant of Return: the worker that fails to start its engine returns without
\* signalling the barrier.
Return_unsignalled(i, how) ==
  /\ wpc' = [wpc EXCEPT ![i] = "done"]
  /\ wres' = [wres EXCEPT ![i] = how]
  /\ wg' = IF how = "startfail" THEN wg ELSE wg - 1

\* The deferred wg.Done() of main.go:94, with the worker's way of ending.
Return(i, how) ==
  /\ wpc' = [wpc EXCEPT ![i] = "done"]
  /\ wres' = [wres EXCEPT ![i] = how]
  /\ wg' = wg - 1

\* Mutant of SkipIfExists: the worker transcodes whether or not the side-car exists.
SkipIfExists_never(path) == FALSE

\* Mutant of SkipIfExists: a side-car left by a failed transcode does not count.
SkipIfExists_validating(path) == Exists(path) /\ fs[path] # "partial"

\* main.go:106: the side-car is taken to exist when os.Stat returns no error.
SkipIfExists(path) == Exists(path)

\* main.go:96-109
WStat(i) ==
  /\ wpc[i] = "stat"
  /\ touched' = touched \cup
       {[pos |-> i, op |-> "stat", path |-> EnhancedFile(inputFile, trackInfos[i].Index)]}
  /\ IF SkipIfExists(EnhancedFile(inputFile, trackInfos[i].Index))
     THEN Return(i, "skipped")
     ELSE wpc' = [wpc EXCEPT ![i] = "start"] /\ UNCHANGED <<wres, wg>>
  /\ UNCHANGED <<pc, hasArg, inputFile, inputExists, rerun, prev, removed, diag, fs0, fsAtMux, fs, emitted, output, trackInfos, launched,
                 ffmpegCalls, muxArgs, muxCalls, muxOK, rmIdx, rmFailed, exitCode, msg>>

\* main.go:111-137: cmd.Start starts the engine, writing to the side-car named last
\* in its arguments and with its stderr in a pipe that a new goroutine reads; or it
\* fails and the worker returns.
WStart(i) ==
  /\ wpc[i] = "start"
  /\ \/ /\ ffmpegCalls' = ffmpegCalls \cup
             {[pos |-> i, args |-> TranscodeArgs(inputFile, trackInfos[i])]}
        /\ touched' = touched \cup
             {[pos |-> i, op |-> "write",
               path |-> TranscodeArgs(inputFile, trackInfos[i])[Len(TranscodeArgs(inputFile, trackInfos[i]))]]}
        /\ diag' = [diag EXCEPT ![i].rd = "open", ![i].fwd = "scanning"]
        /\ wpc' = [wpc EXCEPT ![i] = "wait"]
        /\ UNCHANGED <<wres, wg>>
     \/ /\ Return(i, "startfail")
        /\ UNCHANGED <<ffmpegCalls, touched, diag>>
  /\ UNCHANGED <<pc, hasArg, inputFile, inputExists, rerun, prev, removed, fs0, fsAtMux, fs, emitted, output, trackInfos, launched,
                 muxArgs, muxCalls, muxOK, rmIdx, rmFailed, exitCode, msg>>

\* The file the engine was told to write: the last argument of the call of worker i.
CallTarget(i) ==
  LET c == CHOOSE x \in ffmpegCalls : x.pos = i IN c.args[Len(c.args)]

\* The engine writes a line to its stderr: into the pipe when there is room, and
\* otherwise the write blocks.
EngineWrite(i) ==
  /\ wpc[i] = "wait"
  /\ diag[i].blocked = <<>>
  /\ Len(diag[i].out) < MaxDiag
  /\ \E l \in DiagLines :
       diag' = IF Len(diag[i].pipe) < PipeCapacity
               THEN [diag EXCEPT ![i].out = Append(diag[i].out, l),
                                 ![i].pipe = Append(diag[i].pipe, l)]
               ELSE [diag EXCEPT ![i].blocked = <<l>>]
  /\ UNCHANGED <<pc, hasArg, inputFile, inputExists, rerun, prev, touched, removed, fs0, fsAtMux, fs, emitted, output, trackInfos, launched, wg,
                 wpc, wres, ffmpegCalls, muxArgs, muxCalls, muxOK, rmIdx, rmFailed, exitCode, msg>>

\* The blocked write of the engine completes once the pipe has room.
EngineResume(i) ==
  /\ wpc[i] = "wait"
  /\ diag[i].blocked # <<>>
  /\ Len(diag[i].pipe) < PipeCapacity
  /\ diag' = [diag EXCEPT ![i].out = Append(diag[i].out, diag[i].blocked[1]),
                          ![i].pipe = Append(diag[i].pipe, diag[i].blocked[1]),
                          ![i].blocked = <<>>]
  /\ UNCHANGED <<pc, hasArg, inputFile, inputExists, rerun, prev, touched, removed, fs0, fsAtMux, fs, emitted, output, trackInfos, launched, wg,
                 wpc, wres, ffmpegCalls, muxArgs, muxCalls, muxOK, rmIdx, rmFailed, exitCode, msg>>

\* main.go:133-134: scanner.Scan() in the forwarding goroutine takes the next line
\* out of the pipe; at a line longer than a token it returns false and the goroutine
\* ends, leaving the pipe unread from then on.  The goroutine runs as long as the
\* program does.
ForwardScan(i) ==
  /\ pc # "exit"
  /\ diag[i].fwd = "scanning"
  /\ diag[i].held = <<>>
  /\ diag[i].rd = "open"
  /\ diag[i].pipe # <<>>
  /\ LET l == Head(diag[i].pipe)
     IN  diag' = IF TooLong(l \o <<"\n">>, Len(l) + 1)
                 THEN [diag EXCEPT ![i].fwd = "ended",
                                   ![i].pipe = Tail(diag[i].pipe),
                                   ![i].lost = Append(diag[i].lost, l)]
                 ELSE [diag EXCEPT ![i].held = <<l>>, ![i].pipe = Tail(diag[i].pipe)]
  /\ UNCHANGED <<pc, hasArg, inputFile, inputExists, rerun, prev, touched, removed, fs0, fsAtMux, fs, emitted, output, trackInfos, launched, wg,
                 wpc, wres, ffmpegCalls, muxArgs, muxCalls, muxOK, rmIdx, rmFailed, exitCode, msg>>

\* main.go:133: scanner.Scan() returns false because the read end has been closed,
\* and the goroutine ends.
ForwardEnds(i) ==
  /\ pc # "exit"
  /\ diag[i].fwd = "scanning"
  /\ diag[i].held = <<>>
  /\ diag[i].rd = "closed"
  /\ diag' = [diag EXCEPT ![i].fwd = "ended"]
  /\ UNCHANGED <<pc, hasArg, inputFile, inputExists, rerun, prev, touched, removed, fs0, fsAtMux, fs, emitted, output, trackInfos, launched, wg,
                 wpc, wres, ffmpegCalls, muxArgs, muxCalls, muxOK, rmIdx, rmFailed, exitCode, msg>>

\* main.go:134: fmt.Println of the scanned line.
ForwardPrint(i) ==
  /\ pc # "exit"
  /\ diag[i].held # <<>>
  /\ diag' = [diag EXCEPT ![i].log = Append(diag[i].log, diag[i].held[1]),
                          ![i].held = <<>>,
                          ![i].late = diag[i].late +
                                        (IF pc \in {"merge", "cleanup"} THEN 1 ELSE 0)]
  /\ UNCHANGED <<pc, hasArg, inputFile, inputExists, rerun, prev, touched, removed, fs0, fsAtMux, fs, emitted, output, trackInfos, launched, wg,
                 wpc, wres, ffmpegCalls, muxArgs, muxCalls, muxOK, rmIdx, rmFailed, exitCode, msg>>

\* main.go:139-142: cmd.Wait returns.  The engine exits zero having written the whole
\* side-car, or exits non-zero having written nothing or a part of it.  Wait closes
\* the read end of the stderr pipe once it has seen the engine exit: what is unread
\* in the pipe is discarded.
WWait(i) ==
  /\ wpc[i] = "wait"
  /\ diag[i].blocked = <<>>
  /\ \/ /\ fs' = Put(fs, CallTarget(i), "full")
        /\ Return(i, "ok")
     \/ /\ fs' \in {fs, Put(fs, CallTarget(i), "partial")}
        /\ Return(i, "exitfail")
  /\ diag' = [diag EXCEPT ![i].rd = "closed", ![i].lost = diag[i].lost \o diag[i].pipe,
                           ![i].pipe = <<>>]
  /\ UNCHANGED <<pc, hasArg, inputFile, inputExists, rerun, prev, touched, removed, fs0, fsAtMux, emitted, output, trackInfos, launched,
                 ffmpegCalls, muxArgs, muxCalls, muxOK, rmIdx, rmFailed, exitCode, msg>>

(***************************************************************************)
(* mergeTracks                                                             *)
(***************************************************************************)
\* Mutant of InputArgs: the side-cars are declared in reverse catalog order.
RECURSIVE InputArgs_reversed(_, _)
InputArgs_reversed(file, tracks) ==
  IF tracks = <<>> THEN <<>>
  ELSE InputArgs_reversed(file, Tail(tracks)) \o << <<"-i">>, EnhancedFile(file, Head(tracks).Index) >>

\* main.go:148-151
RECURSIVE InputArgs(_, _)
InputArgs(file, tracks) ==
  IF tracks = <<>> THEN <<>>
  ELSE << <<"-i">>, EnhancedFile(file, Head(tracks).Index) >> \o InputArgs(file, Tail(tracks))

\* Mutant of AudioMapPair: the enhanced stream is mapped before the original.
AudioMapPair_swapped(i) ==
  << <<"-map">>, Itoa(1 + i) \o <<":a">>, <<"-c:a">>, <<"copy">>,
     <<"-map">>, <<"0:a:">> \o Itoa(i), <<"-c:a">>, <<"copy">> >>

\* main.go:158-159 for loop index i
AudioMapPair(i) ==
  << <<"-map">>, <<"0:a:">> \o Itoa(i), <<"-c:a">>, <<"copy">>,
     <<"-map">>, Itoa(1 + i) \o <<":a">>, <<"-c:a">>, <<"copy">> >>

\* main.go:157-160 for loop indices i .. n-1
RECURSIVE AudioMaps(_, _)
AudioMaps(i, n) == IF i >= n THEN <<>> ELSE AudioMapPair(i) \o AudioMaps(i + 1, n)

\* main.go:146-162
MergeArgs(file, outFile, tracks) ==
  << <<"-i">>, file >>
  \o InputArgs(file, tracks)
  \o << <<"-map">>, <<"0:v">> >>
  \o << <<"-map">>, <<"0:s?">> >>
  \o AudioMaps(0, Len(tracks))
  \o << <<"-c:v">>, <<"copy">>, <<"-c:s">>, <<"copy">>, <<"-y">>, outFile >>

\* The mux engine's reading of its arguments: the inputs it opens, in order.
DeclaredInputs(args) ==
  LET at == {k \in 1..(Len(args) - 1) : args[k] = <<"-i">>}
      RECURSIVE Collect(_)
      Collect(k) == IF k >= Len(args) THEN <<>>
                    ELSE (IF k \in at THEN <<args[k + 1]>> ELSE <<>>) \o Collect(k + 1)
  IN  Collect(1)

\* The mux engine cannot open one of the side-cars it was given.
MissingInput(args) ==
  \E k \in 2..Len(DeclaredInputs(args)) : ~Exists(DeclaredInputs(args)[k])

\* Mutant of MergeReturnsError: the engine's exit status is not looked at.
MergeReturnsError_swallowed(ok) == FALSE

\* main.go:170-173 and 46: mergeTracks returns an error, and main exits on it, when
\* the engine did not exit zero.
MergeReturnsError(ok) == ~ok

\* main.go:46-49 with mergeTracks (145-174).  The engine exits non-zero when an input
\* is missing, writing nothing; otherwise it exits zero with the output written, or
\* non-zero with no output or a part of it.
Merge ==
  /\ pc = "merge"
  /\ LET args == MergeArgs(inputFile, OutputFile(inputFile), trackInfos)
     IN  /\ muxArgs' = args
         /\ muxCalls' = muxCalls + 1
         /\ fsAtMux' = fs
         /\ \E ok \in BOOLEAN :
              /\ ok => ~MissingInput(args)
              /\ muxOK' = ok
              /\ IF ok
                 THEN fs' = Put(fs, OutputFile(inputFile), "muxed")
                 ELSE fs' \in {fs} \cup
                        (IF MissingInput(args) THEN {}
                         ELSE {Put(fs, OutputFile(inputFile), "partial")})
              /\ IF MergeReturnsError(ok)
                 THEN Exit(1, "mergeErr")
                 ELSE pc' = "cleanup" /\ UNCHANGED <<exitCode, msg>>
  /\ UNCHANGED <<hasArg, inputFile, inputExists, rerun, prev, touched, removed, diag, fs0, emitted, output, trackInfos, launched, wg,
                 wpc, wres, ffmpegCalls, rmIdx, rmFailed>>

(***************************************************************************)
(* removeTemporaryFiles and the end of main                                *)
(***************************************************************************)
\* Mutant of AfterRemoveError: the loop goes on to the next side-car.
AfterRemoveError_continue(k) ==
  /\ rmFailed' = k
  /\ rmIdx' = rmIdx + 1
  /\ UNCHANGED <<fs, pc, exitCode, msg>>

\* Mutant of AfterRemoveError: main treats the cleanup error as fatal.
AfterRemoveError_fatal(k) ==
  /\ rmFailed' = k
  /\ pc' = "exit" /\ exitCode' = 1 /\ msg' = "cleanupErr"
  /\ UNCHANGED <<fs, rmIdx>>

\* main.go:183-186 and 51-54: deleting the side-car at position k failed;
\* removeTemporaryFiles returns the error, and main, which ignores it, prints the
\* output path and returns.
AfterRemoveError(k) ==
  /\ rmFailed' = k
  /\ Exit(0, "generated")
  /\ UNCHANGED <<fs, rmIdx>>

\* Mutant of RemovePath: cleanup names the side-car by the catalog position.
RemovePath_byPosition(file, tracks, k) == EnhancedFile(file, Itoa(k - 1))

\* main.go:178-180: the path removeTemporaryFiles builds for catalog position k.
RemovePath(file, tracks, k) == EnhancedFile(file, tracks[k].Index)

\* main.go:178-188, one iteration: os.Remove succeeds and the loop goes on, or it
\* fails (always when the file is missing).
RemoveStep ==
  /\ pc = "cleanup"
  /\ rmIdx < N
  /\ LET path == RemovePath(inputFile, trackInfos, rmIdx + 1)
     IN  /\ removed' = Append(removed, path)
         /\ \E ok \in BOOLEAN :
              /\ ok => Exists(path)
              /\ IF ok
                 THEN /\ fs' = Del(fs, path)
                      /\ rmIdx' = rmIdx + 1
                      /\ UNCHANGED <<pc, rmFailed, exitCode, msg>>
                 ELSE AfterRemoveError(rmIdx + 1)
  /\ UNCHANGED <<hasArg, inputFile, inputExists, rerun, prev, touched, diag, fs0, fsAtMux, emitted, output, trackInfos, launched, wg,
                 wpc, wres, ffmpegCalls, muxArgs, muxCalls, muxOK>>

\* main.go:178, 189 and 51-54: the loop is over, main prints the output path and returns.
CleanupDone ==
  /\ pc = "cleanup"
  /\ rmIdx = N
  /\ Exit(0, "generated")
  /\ UNCHANGED <<hasArg, inputFile, inputExists, rerun, prev, touched, removed, diag, fs0, fsAtMux, fs, emitted, output, trackInfos, launched, wg,
                 wpc, wres, ffmpegCalls, muxArgs, muxCalls, muxOK, rmIdx, rmFailed>>

Next ==
  \/ CheckArgs
  \/ ExtractFails
  \/ ExtractOK
  \/ Launch
  \/ WgWait
  \/ \E i \in 1..N : WStat(i)
  \/ \E i \in 1..N : WStart(i)
  \/ \E i \in 1..N : WWait(i)
  \/ Merge
  \/ RemoveStep
  \/ CleanupDone

Spec == Init /\ [][Next]_vars

\* One run on the files that are run twice, with or without side-cars left over.
InitFair ==
  /\ Init
  /\ inputFile = <<"m", ".", "m", "k", "v">>

\* main.go:32 for those files.
ExtractFair == ExtractFrom(RerunOutputs)

NextFair ==
  \/ CheckArgs
  \/ ExtractFails
  \/ ExtractFair
  \/ Launch
  \/ WgWait
  \/ \E i \in 1..N : WStat(i)
  \/ \E i \in 1..N : WStart(i)
  \/ \E i \in 1..N : WWait(i)
  \/ Merge
  \/ RemoveStep
  \/ CleanupDone

\* Such a run in which every goroutine that can take a step is scheduled in the end
\* and every external process that was started exits: a step of the run stays
\* possible until main has exited, and none is put off forever.
FairSpec == InitFair /\ [][NextFair]_vars /\ WF_vars(NextFair)

\* The operator runs the program again on the same input once the first run has
\* ended: main starts afresh, and only the files are as the first run left them.
Rerun ==
  /\ pc = "exit"
  /\ ~rerun
  /\ rerun' = TRUE
  /\ prev' = [extracted |-> (msg \in {"mergeErr", "generated"}),
              lines |-> emitted,
              bytes |-> output,
              ok |-> {trackInfos[i].Index : i \in {j \in 1..N : wres[j] = "ok"}},
              called |-> {trackInfos[c.pos].Index : c \in ffmpegCalls},
              muxArgs |-> muxArgs,
              msg |-> msg]
  /\ touched' = {}
  /\ removed' = <<>>
  /\ diag' = <<>>
  /\ pc' = "args"
  /\ fs0' = fs
  /\ fsAtMux' = <<>>
  /\ emitted' = <<>>
  /\ output' = <<>>
  /\ trackInfos' = <<>>
  /\ launched' = 0
  /\ wg' = 0
  /\ wpc' = <<>>
  /\ wres' = <<>>
  /\ ffmpegCalls' = {}
  /\ muxArgs' = <<>>
  /\ muxCalls' = 0
  /\ muxOK' = FALSE
  /\ rmIdx' = 0
  /\ rmFailed' = 0
  /\ exitCode' = -1
  /\ msg' = "none"
  /\ UNCHANGED <<hasArg, inputFile, inputExists, fs>>

\* main.go:32 in a program that may be run twice: the input file does not change, so
\* the inspection tool writes in the second run what it wrote in the first.
ExtractRerun ==
  ExtractFrom(IF rerun /\ prev.extracted
              THEN {[lines |-> prev.lines, bytes |-> prev.bytes]}
              ELSE RerunOutputs)

\* A first run on an existing input with no side-car on disk.
InitRerun ==
  /\ Init
  /\ hasArg
  /\ inputExists
  /\ inputFile = <<"m", ".", "m", "k", "v">>
  /\ fs = <<>>

NextRerun ==
  \/ CheckArgs
  \/ ExtractFails
  \/ ExtractRerun
  \/ Launch
  \/ WgWait
  \/ \E i \in 1..N : WStat(i)
  \/ \E i \in 1..N : WStart(i)
  \/ \E i \in 1..N : WWait(i)
  \/ Merge
  \/ RemoveStep
  \/ CleanupDone
  \/ Rerun

SpecRerun == InitRerun /\ [][NextRerun]_vars

\* main.go:32 for a file with at most one audio stream.
DiagOutputs == OutputsOf({L3})

ExtractDiag == ExtractFrom(DiagOutputs)

\* A run with the diagnostic streams of the engines: the engines write lines while
\* they run, and the forwarding goroutines scan and print them.
NextDiag ==
  \/ CheckArgs
  \/ ExtractFails
  \/ ExtractDiag
  \/ Launch
  \/ WgWait
  \/ \E i \in 1..N : WStat(i)
  \/ \E i \in 1..N : WStart(i)
  \/ \E i \in 1..N : EngineWrite(i)
  \/ \E i \in 1..N : EngineResume(i)
  \/ \E i \in 1..N : ForwardScan(i)
  \/ \E i \in 1..N : ForwardEnds(i)
  \/ \E i \in 1..N : ForwardPrint(i)
  \/ \E i \in 1..N : WWait(i)
  \/ Merge
  \/ RemoveStep
  \/ CleanupDone

SpecDiag == InitRerun /\ [][NextDiag]_vars

\* The extractor alone, over every output of ParserOutputs.
NextParse ==
  \/ CheckArgs
  \/ ExtractFails
  \/ ExtractFrom(ParserOutputs)

SpecParse == Init /\ [][NextParse]_vars

(***************************************************************************)
(* Properties                                                              *)
(***************************************************************************)
\* The side-car path of catalog position i (1-based).
SideCar(i) == EnhancedFile(inputFile, trackInfos[i].Index)

Outcomes == {"skipped", "startfail", "exitfail", "ok"}

\* The workers that have been launched and have not returned.
Running == {i \in 1..N : wpc[i] \in {"stat", "start", "wait"}}

\* The mux engine has been invoked, or main is past the barrier.
PastBarrier == pc \in {"merge", "cleanup"} \/ muxCalls > 0

\* C1 (join barrier): the mux invocation does not start until every worker has
\* returned, whichever way it ended; one worker is launched per catalog entry, the
\* barrier counts exactly the workers still running, and a worker that has ended
\* always has an outcome of its own (none is stopped from outside).
C1_JoinBarrier ==
  /\ launched <= N
  /\ wg = Cardinality(Running)
  /\ \A i \in 1..N : /\ (wpc[i] = "idle") = (i > launched)
                     /\ (wpc[i] = "done") = (wres[i] \in Outcomes)
                     /\ wres[i] \in Outcomes \cup {"none"}
  /\ PastBarrier =>
       /\ launched = N
       /\ \A i \in 1..N : wpc[i] = "done" /\ wres[i] \in Outcomes

\* Three workers ended in three different ways, one of them a failure, and main is
\* about to invoke the mux engine.
C1_Witness ==
  /\ pc = "merge"
  /\ N = 3
  /\ {wres[i] : i \in 1..N} = {"skipped", "exitfail", "ok"}

\* Worker i failed and left no side-car: none is there now or, once the mux engine
\* has been invoked, none was there at that moment.
FailedNoFile(i) ==
  /\ wres[i] \in {"startfail", "exitfail"}
  /\ IF muxCalls > 0 THEN SideCar(i) \notin DOMAIN fsAtMux ELSE ~Exists(SideCar(i))

\* C2 (fail-soft, then fail-loud): once the transcode of a track has failed leaving no
\* side-car, the run goes on through the fan-out to the mux stage and can end only
\* there: when it has ended, every worker has returned with an outcome of its own, the
\* mux engine has been invoked once, that invocation failed, and the run ended with
\* the merge error and exit status 1.  It never reaches cleanup, never reports
\* success and leaves no output file.
C2_FailSoftFailLoud ==
  \A i \in 1..N : FailedNoFile(i) =>
    /\ pc \in {"fanout", "merge", "exit"}
    /\ \A j \in 1..N : wpc[j] = "done" => wres[j] \in Outcomes
    /\ ~muxOK
    /\ msg # "generated"
    /\ ~Exists(OutputFile(inputFile))
    /\ pc = "exit" =>
         /\ muxCalls = 1
         /\ exitCode = 1
         /\ msg = "mergeErr"
         /\ \A j \in 1..N : wpc[j] = "done"

\* A run that ended in the merge error after one worker failed without a side-car
\* while another one transcoded its track.
C2_Witness ==
  /\ pc = "exit"
  /\ msg = "mergeErr"
  /\ \E i, j \in 1..N : FailedNoFile(i) /\ wres[j] = "ok" /\ Exists(SideCar(j))

\* The values of the -map options of an argument list, in order.
RECURSIVE MapValues(_)
MapValues(args) ==
  IF Len(args) < 2 THEN <<>>
  ELSE IF Head(args) = <<"-map">> THEN <<args[2]>> \o MapValues(Tail(Tail(args)))
  ELSE MapValues(Tail(args))

\* C3 (stream-map ordering): the mux invocation maps the video, then the optional
\* subtitles, then for each catalog position i = 0..N-1, in increasing i, audio
\* sub-stream i of input 0 immediately followed by the audio of input i+1; with an
\* empty catalog there is no audio mapping.
C3_MapOrdering ==
  muxCalls > 0 =>
    LET maps == MapValues(muxArgs)
    IN  /\ Len(maps) = 2 + 2 * N
        /\ maps[1] = <<"0:v">>
        /\ maps[2] = <<"0:s?">>
        /\ \A i \in 0..(N - 1) :
             /\ maps[3 + 2 * i] = <<"0:a:">> \o Itoa(i)
             /\ maps[4 + 2 * i] = Itoa(i + 1) \o <<":a">>

\* The mux engine was invoked for a catalog of three tracks.
C3_Witness == muxCalls = 1 /\ N = 3 /\ Len(MapValues(muxArgs)) = 8

\* The positions of the -i options of an argument list.
InputOptions(args) == {k \in 1..Len(args) : args[k] = <<"-i">>}

\* C4 (input declaration order): the mux invocation declares N+1 inputs and no more:
\* first the original file, then the side-car of catalog entry i as input i+1, in
\* catalog order; no side-car is declared twice.
C4_InputOrder ==
  muxCalls > 0 =>
    /\ InputOptions(muxArgs) = {2 * k + 1 : k \in 0..N}
    /\ muxArgs[2] = inputFile
    /\ \A i \in 1..N : muxArgs[2 * i + 2] = SideCar(i)
    /\ \A i, j \in 1..N : i # j => muxArgs[2 * i + 2] # muxArgs[2 * j + 2]

\* The mux engine was invoked with the original file and three side-cars.
C4_Witness == muxCalls = 1 /\ N = 3 /\ Cardinality(InputOptions(muxArgs)) = 4

\* C6 (cleanup short-circuit): removeTemporaryFiles deletes the side-cars in catalog
\* order and stops at the first deletion that fails: at every moment of the cleanup
\* the side-cars of the first rmIdx catalog entries are gone and all later ones are
\* on disk as they were when the mux engine ran; once a deletion has failed (at
\* position rmFailed) exactly the entries before it have been deleted, the run has left
\* the cleanup and nothing after the failing entry is touched.
C6_CleanupShortCircuit ==
  muxOK =>
    /\ \A j \in 1..N : j <= rmIdx => ~Exists(SideCar(j))
    /\ \A j \in 1..N : j > rmIdx =>
         /\ Exists(SideCar(j))
         /\ fs[SideCar(j)] = fsAtMux[SideCar(j)]
    /\ rmFailed > 0 => rmIdx = rmFailed - 1 /\ pc = "exit"
    /\ (pc = "exit" /\ rmFailed = 0) => rmIdx = N

\* Three side-cars, the deletion of the second one failed: the first is gone, the
\* third is still there.
C6_Witness ==
  /\ N = 3
  /\ rmFailed = 2
  /\ ~Exists(SideCar(1))
  /\ Exists(SideCar(3))

\* C7 (cleanup only after a successful remux): no step deletes a file unless the mux
\* invocation has returned success before it; and when the mux invocation has failed
\* the run has ended with the merge error and exit status 1, no deletion was tried,
\* and every file that existed when the mux engine was invoked still exists unchanged.
C7_CleanupOnlyAfterMux ==
  /\ [][(\E p \in DOMAIN fs : p \notin DOMAIN fs') => muxOK]_vars
  /\ []((muxCalls > 0 /\ ~muxOK) =>
          /\ pc = "exit" /\ exitCode = 1 /\ msg = "mergeErr"
          /\ rmIdx = 0 /\ rmFailed = 0
          /\ \A p \in DOMAIN fsAtMux : p \in DOMAIN fs /\ fs[p] = fsAtMux[p])

\* The mux engine failed although both side-cars of a two-track catalog were there,
\* and they are still there at the end of the run.
C7_Witness ==
  /\ pc = "exit"
  /\ muxCalls = 1 /\ ~muxOK
  /\ N = 2
  /\ \A i \in 1..N : SideCar(i) \in DOMAIN fsAtMux /\ Exists(SideCar(i))

\* C8 (success despite cleanup failure): when a side-car deletion has failed, the
\* remux had succeeded and its output file is in place, no further deletion is done,
\* and the run has ended as a success: the output path is printed and the exit status
\* is 0.
C8_SuccessDespiteCleanupFailure ==
  rmFailed > 0 =>
    /\ muxOK
    /\ Exists(OutputFile(inputFile)) /\ fs[OutputFile(inputFile)] = "muxed"
    /\ rmIdx = rmFailed - 1
    /\ pc = "exit"
    /\ exitCode = 0
    /\ msg = "generated"

\* The deletion of the first of two side-cars failed and the run ended with status 0.
C8_Witness ==
  /\ N = 2
  /\ rmFailed = 1
  /\ pc = "exit"
  /\ exitCode = 0
  /\ \A i \in 1..N : Exists(SideCar(i))

\* C9 (early abort): when the input path does not exist the run cannot get past the
\* extraction and ends with the not-found error; and when the extraction has failed
\* (path missing, or the inspection tool not launched or exiting non-zero) the run has
\* ended at once with exit status 1: no worker was launched, no transcode or mux
\* engine was invoked, and the files are exactly those present at the start.
C9_EarlyAbort ==
  /\ (hasArg /\ ~inputExists) =>
       /\ pc \in {"args", "extract", "exit"}
       /\ pc = "exit" => msg = "notFoundErr"
  /\ msg \in {"notFoundErr", "ffprobeErr"} =>
       /\ pc = "exit"
       /\ exitCode = 1
       /\ trackInfos = <<>>
       /\ launched = 0 /\ wg = 0 /\ wpc = <<>>
       /\ ffmpegCalls = {}
       /\ muxCalls = 0 /\ muxArgs = <<>>
       /\ rmIdx = 0 /\ rmFailed = 0
       /\ fs = fs0

\* The inspection tool failed on an existing input that has left-over side-cars.
C9_Witness ==
  /\ msg = "ffprobeErr"
  /\ inputExists
  /\ Cardinality(DOMAIN fs) = 2

\* The positions of the separators of a line.
Pipes(l) == {k \in 1..Len(l) : l[k] = "|"}

\* The position of the n-th separator of a line (n >= 1); 0 for n = 0 and Len(l) + 1
\* when the line has fewer than n separators.
PipeAt(l, n) ==
  IF n = 0 THEN 0
  ELSE IF Cardinality(Pipes(l)) < n THEN Len(l) + 1
  ELSE CHOOSE k \in Pipes(l) : Cardinality({j \in Pipes(l) : j < k}) = n - 1

\* Field n (counted from 0) of a line: the characters between separators n and n+1.
Field(l, n) == SubSeq(l, PipeAt(l, n) + 1, PipeAt(l, n + 1) - 1)

\* The emitted lines that have at least 3 fields, by position.
Kept == {k \in 1..Len(emitted) : Cardinality(Pipes(emitted[k])) + 1 >= 3}

\* The position of the j-th kept line.
KeptAt(j) == CHOOSE k \in Kept : Cardinality({m \in Kept : m < k}) = j - 1

\* The catalog holds exactly one descriptor per kept line, in the order of emission,
\* with the fields of that line.
CatalogMatchesKept ==
  /\ Len(trackInfos) = Cardinality(Kept)
  /\ \A j \in 1..Cardinality(Kept) :
       LET l == emitted[KeptAt(j)]
       IN  j <= Len(trackInfos) /\
           trackInfos[j] =
             [Index |-> Field(l, 0), Layout |-> Field(l, 1), Language |-> Field(l, 2),
              Title |-> IF Cardinality(Pipes(l)) + 1 > 3 THEN Field(l, 3) ELSE <<>>]

\* C10 (extractor parsing): once the inspection tool has run, the catalog has exactly
\* one descriptor per emitted line with at least 3 pipe-delimited fields, in the order
\* of emission, with index, layout and language from fields 0-2 and the title from
\* field 3 (empty when the line has only 3 fields); lines with fewer fields leave no
\* trace and raise no error.
C10_ExtractorParsing ==
  pc = "fanout" => (exitCode = -1 /\ msg = "none" /\ CatalogMatchesKept)

\* Every emitted line, with its line end, fits into a scanner token.
LinesFit == \A k \in 1..Len(emitted) : Len(emitted[k]) + 2 <= MaxScanTokenSize

\* The same statement for the outputs whose lines all fit into a scanner token: it
\* holds of those.
C10_WhenLinesFit ==
  (pc = "fanout" /\ LinesFit) => (exitCode = -1 /\ msg = "none" /\ CatalogMatchesKept)

\* The transcode engine was started for catalog position i in this run.
Called(i) == \E c \in ffmpegCalls : c.pos = i

\* The number of transcodes of the track at position i over both runs.
Transcodes(i) ==
  (IF Called(i) THEN 1 ELSE 0) + (IF trackInfos[i].Index \in prev.called THEN 1 ELSE 0)

\* C5 (worker idempotence): a worker whose side-car exists when the run starts starts
\* no transcode engine, returns as skipped (having signalled the barrier, which counts
\* exactly the workers still running) and leaves the file as it was; a worker skips
\* only in that case.  So when the first run transcoded a track and its side-car is
\* still there when the program is run again, the two workers for that track have
\* performed exactly one transcode in total.
C5_WorkerIdempotence ==
  /\ wg = Cardinality(Running)
  /\ \A i \in 1..N :
       /\ (wpc[i] = "done" /\ SideCar(i) \in DOMAIN fs0) => wres[i] = "skipped"
       /\ SideCar(i) \in DOMAIN fs0 => ~Called(i)
       /\ wres[i] = "skipped" =>
            /\ SideCar(i) \in DOMAIN fs0
            /\ wpc[i] = "done"
            /\ ~Called(i)
            /\ ~muxOK => (Exists(SideCar(i)) /\ fs[SideCar(i)] = fs0[SideCar(i)])
       /\ (rerun /\ trackInfos[i].Index \in prev.ok /\ SideCar(i) \in DOMAIN fs0
           /\ wpc[i] = "done") => Transcodes(i) = 1

\* In the second run a worker has skipped a track that the first run transcoded, and
\* the side-car is the one the first run wrote.
C5_Witness ==
  /\ rerun
  /\ pc = "merge"
  /\ \E i \in 1..N :
       /\ trackInfos[i].Index \in prev.ok
       /\ wres[i] = "skipped"
       /\ Transcodes(i) = 1
       /\ Exists(SideCar(i)) /\ fs[SideCar(i)] = "full"

\* The layout begins with the three characters 7 . 1
Begins71(layout) ==
  Len(layout) >= 3 /\ layout[1] = "7" /\ layout[2] = "." /\ layout[3] = "1"

\* The value of option opt in an argument list: the argument after its first
\* occurrence.
OptionValue(args, opt) == args[(CHOOSE k \in 1..Len(args) : args[k] = opt /\ \A j \in 1..(k - 1) : args[j] # opt) + 1]

\* C11 (filter-graph selection): every transcode engine that is started is given the
\* 7.1 downmix formula when its track's layout begins with "7.1" and the default
\* formula otherwise, whatever the track's index, language and title, the input path
\* and the files on disk are.
C11_FilterSelection ==
  \A c \in ffmpegCalls :
    LET layout == trackInfos[c.pos].Layout
        af == OptionValue(c.args, <<"-af">>)
    IN  /\ af \in {Af71, AfDefault}
        /\ (af = Af71) = Begins71(layout)
        /\ layout \in {<<>>, <<"5", ".", "1">>} => af = AfDefault

\* Engines were started for a "7.1(wide)" track, a "7.1" track and a track with an
\* empty layout.
C11_Witness ==
  /\ \E c \in ffmpegCalls : trackInfos[c.pos].Layout = <<"7", ".", "1", "(", "w", "i", "d", "e", ")">>
                            /\ OptionValue(c.args, <<"-af">>) = Af71
  /\ \E c \in ffmpegCalls : trackInfos[c.pos].Layout = <<"7", ".", "1">>
  /\ \E c \in ffmpegCalls : trackInfos[c.pos].Layout = <<>>
                            /\ OptionValue(c.args, <<"-af">>) = AfDefault

(***************************************************************************)
(* The run in which everything succeeds                                    *)
(***************************************************************************)
\* The calls of the transcode engine made for catalog position i.
CallsFor(i) == {c \in ffmpegCalls : c.pos = i}

\* The run has ended after a mux invocation, having found no side-car of the catalog
\* when it began, and every engine it started (inspection, one transcode per track,
\* mux) exited zero.
AllInvocationsSucceeded ==
  /\ pc = "exit"
  /\ muxCalls > 0 /\ muxOK
  /\ \A i \in 1..N : SideCar(i) \notin DOMAIN fs0 /\ wres[i] = "ok"

\* What the end-to-end scenario promises of such a run.
EndToEndOutcome ==
  /\ Cardinality(ffmpegCalls) = N
  /\ \A i \in 1..N :
       /\ Cardinality(CallsFor(i)) = 1
       /\ \A c \in CallsFor(i) :
            c.args[Len(c.args)] =
              TrimSuffix(inputFile, MkvSuffix) \o <<"_track">> \o trackInfos[i].Index
                \o <<"_enhanced.opus">>
  /\ muxCalls = 1
  /\ LET maps == MapValues(muxArgs)
     IN  /\ Len(maps) = 2 + 2 * N
         /\ \A i \in 0..(N - 1) :
              /\ maps[3 + 2 * i] = <<"0:a:">> \o Itoa(i)
              /\ maps[4 + 2 * i] = Itoa(i + 1) \o <<":a">>
  /\ Len(removed) = N
  /\ \A i \in 1..N : removed[i] = SideCar(i) /\ SideCar(i) \notin DOMAIN fs
  /\ exitCode = 0 /\ msg = "generated"

\* The stages of a run follow each other: the mux engine is invoked once every worker
\* has returned, and nothing is removed before the mux engine has exited zero.
StagesInOrder ==
  /\ muxCalls > 0 => \A i \in 1..N : wpc[i] = "done"
  /\ removed # <<>> => muxCalls = 1 /\ muxOK

\* C12 (end-to-end success run), as stated: with no side-car of the catalog present at
\* the start and every external invocation succeeding, the run makes exactly one
\* transcode invocation per track, writing the side-car named by input stem and track
\* index, then exactly one mux invocation mapping the 2N audio streams in the order
\* orig0, enh0, orig1, enh1, ..., then deletes every side-car, and ends in success
\* with no side-car left on disk.
C12_EndToEndSuccess ==
  /\ StagesInOrder
  /\ AllInvocationsSucceeded => EndToEndOutcome

\* C12 amended: the same, for the runs in which every removal of a side-car succeeds
\* as well (os.Remove is no external invocation, and it can fail).
C12_EndToEndSuccessWhenRemovalsSucceed ==
  /\ StagesInOrder
  /\ AllInvocationsSucceeded /\ rmFailed = 0 => EndToEndOutcome

\* A run over tracks of layouts 5.1 and 7.1 in which everything succeeded.
C12_Witness ==
  /\ AllInvocationsSucceeded /\ rmFailed = 0
  /\ N = 2
  /\ trackInfos[1].Layout = <<"5", ".", "1">>
  /\ trackInfos[2].Layout = <<"7", ".", "1">>
  /\ Cardinality(ffmpegCalls) = 2
  /\ Len(removed) = 2

(***************************************************************************)
(* Running the program again after a run that ended before cleanup         *)
(***************************************************************************)
\* This is the second run, and the first ended at a failed mux invocation (which is
\* also how a run ends in which a worker failed and left no side-car).
RerunAfterMuxFailure == rerun /\ prev.msg = "mergeErr"

\* The files as the workers left them: at the mux invocation, or now before it.
AfterWorkers == IF muxCalls > 0 THEN fsAtMux ELSE fs

\* C13 (resumability): when the program is run again on the same input after a run
\* that ended before cleanup, a worker whose side-car exists starts no engine, returns
\* as skipped and leaves the file as it found it, whatever the file holds (what a
\* failed transcode left counts as much as a complete side-car); a worker whose
\* side-car is missing does not skip and goes on to the transcode engine; and the
\* second run, once past the inspection, ends with one mux invocation whose
\* arguments are those of the first run's, over the same catalog.
C13_Resumability ==
  RerunAfterMuxFailure =>
    /\ \A i \in 1..N :
         /\ SideCar(i) \in DOMAIN fs0 =>
              /\ ~Called(i)
              /\ wpc[i] = "done" => wres[i] = "skipped"
              /\ SideCar(i) \in DOMAIN AfterWorkers
              /\ AfterWorkers[SideCar(i)] = fs0[SideCar(i)]
         /\ SideCar(i) \notin DOMAIN fs0 =>
              /\ wres[i] # "skipped"
              /\ wpc[i] = "wait" \/ wres[i] \in {"ok", "exitfail"} => Called(i)
              /\ wpc[i] = "done" => wres[i] \in {"startfail", "exitfail", "ok"}
    /\ pc \in {"fanout", "merge", "cleanup"} => trackInfos = ParseTracks(prev.bytes)
    /\ muxCalls > 0 => muxCalls = 1 /\ muxArgs = prev.muxArgs
    /\ pc = "exit" /\ msg # "ffprobeErr" => muxCalls = 1

\* The second run of a two-track input: one worker has skipped the side-car that a
\* failed transcode of the first run left, the other has transcoded the track whose
\* side-car was missing, and the mux engine has been invoked as in the first run.
C13_Witness ==
  /\ RerunAfterMuxFailure
  /\ N = 2
  /\ muxCalls = 1 /\ muxArgs = prev.muxArgs
  /\ \E i, j \in 1..N :
       /\ SideCar(i) \in DOMAIN fs0 /\ fs0[SideCar(i)] = "partial" /\ wres[i] = "skipped"
       /\ SideCar(j) \notin DOMAIN fs0 /\ wres[j] = "ok" /\ Called(j)

(***************************************************************************)
(* The paths the workers touch                                             *)
(***************************************************************************)
\* The paths worker i has looked for (os.Stat) or handed to an engine as its target.
TouchedBy(i) == {t.path : t \in {u \in touched : u.pos = i}}

AudioStream(k) == Field(emitted[k + 1], 0)

\* The sub-stream number in a mux mapping "0:a:k".
SubStream(map) == CHOOSE k \in 0..MaxLines : map = <<"0:a:">> \o Itoa(k)

\* C15 (original/enhanced alignment): for every catalog position i (counted from 0),
\* the stream the mux invocation maps as audio sub-stream i of input 0 is the source
\* stream with the index of catalog entry i, and it is the stream the engine that
\* wrote the side-car declared as input i+1 was told to read; also when the
\* Extractor dropped lines with fewer than 3 fields.
C15_Alignment ==
  muxCalls > 0 =>
    \A i \in 0..(N - 1) :
      LET original == AudioStream(SubStream(MapValues(muxArgs)[3 + 2 * i]))
      IN  /\ original = trackInfos[i + 1].Index
          /\ \A c \in ffmpegCalls :
               c.args[Len(c.args)] = muxArgs[2 * (i + 1) + 2] =>
                 OptionValue(c.args, <<"-map">>) = <<"0:">> \o original

(***************************************************************************)
(* One side-car path and one catalog through all stages                    *)
(***************************************************************************)
\* C16 (side-car lifecycle consistency): for every catalog entry, the path the
\* worker's engine writes, the path the mux invocation declares as the entry's
\* input and the path cleanup removes are one path; and from the fan-out to the end
\* of cleanup the catalog is the one the Extractor returned, entry by entry and in
\* its order.
C16_LifecycleConsistency ==
  /\ (pc \in {"fanout", "merge", "cleanup"} \/ muxCalls > 0) =>
       trackInfos = ParseTracks(output)
  /\ Len(removed) <= N
  /\ \A i \in 1..N :
       /\ \A c \in CallsFor(i) :
            /\ [pos |-> i, op |-> "write", path |-> c.args[Len(c.args)]] \in touched
            /\ muxCalls > 0 => c.args[Len(c.args)] = muxArgs[2 * i + 2]
            /\ OptionValue(c.args, <<"-map">>) = <<"0:">> \o trackInfos[i].Index
       /\ i <= Len(removed) =>
            /\ muxCalls > 0
            /\ removed[i] = muxArgs[2 * i + 2]
            /\ \A c \in CallsFor(i) : removed[i] = c.args[Len(c.args)]

\* A run over two tracks has transcoded both, muxed and removed both side-cars.
C16_Witness ==
  /\ pc = "exit"
  /\ N = 2
  /\ \A i \in 1..N : CallsFor(i) # {}
  /\ muxCalls = 1
  /\ Len(removed) = 2
  /\ rmFailed = 0

(***************************************************************************)
(* Termination                                                             *)
(***************************************************************************)
\* The run has ended in success, or it has ended in failure.
EndedInSuccess == pc = "exit" /\ exitCode = 0 /\ msg = "generated"
EndedInFailure ==
  pc = "exit" /\ exitCode = 1 /\ msg \in {"usage", "notFoundErr", "ffprobeErr", "mergeErr"}

\* C17 (termination): when every external process that is started exits and the
\* goroutines are scheduled fairly, every run ends, in success or in failure and not
\* both; the barrier counter is never negative and counts exactly the workers that
\* were launched and have not returned (a worker signals once, whichever way it
\* ends), and once the fan-out has begun the counter reaches zero and main passes
\* the barrier.
C17_Termination ==
  /\ <>(pc = "exit")
  /\ [](pc = "exit" => (EndedInSuccess /\ ~EndedInFailure) \/ (EndedInFailure /\ ~EndedInSuccess))
  /\ [](wg >= 0 /\ wg = Cardinality(Running))
  /\ [](\A i \in 1..N : wpc[i] = "done" <=> wres[i] \in Outcomes)
  /\ (pc = "fanout") ~> (pc = "merge" /\ launched = N /\ wg = 0)

\* A run of two workers has ended, one worker having skipped its track and the other
\* having failed to start its engine.
C17_Witness ==
  /\ pc = "exit"
  /\ N = 2
  /\ wg = 0
  /\ {wres[i] : i \in 1..N} = {"skipped", "startfail"}

(***************************************************************************)
(* The engines' diagnostic lines                                           *)
(***************************************************************************)
\* Every line the engine of worker i has written is in the log, in order.
AllForwarded(i) == diag[i].log = diag[i].out

\* The engine of worker i is blocked in a write to a full pipe that no goroutine
\* reads any more.
EngineStuck(i) == diag[i].blocked # <<>> /\ diag[i].fwd = "ended"

\* C18 (diagnostic forwarding completeness): every diagnostic line an engine has
\* written is in the operator-visible log by the time its worker has signalled the
\* barrier; no line is lost, none is printed after main has gone on to the mux
\* stage, and no engine is held up by the forwarding.
C18_DiagnosticForwarding ==
  \A i \in 1..N :
    /\ wpc[i] = "done" => AllForwarded(i)
    /\ diag[i].lost = <<>>
    /\ diag[i].late = 0
    /\ ~EngineStuck(i)
====
